---- MODULE Spec2Model ----
(***************************************************************************)
(* Model of the model-artifact verification and synchronisation code of    *)
(* Zonos/zonos.py: cache path resolution, hash based integrity             *)
(* verification, the verification store, the download pass, the update     *)
(* check and its coordinator, and the uninstall command.                    *)
(*                                                                         *)
(* Strings are sequences of tokens ("/" and "--" are tokens of their own), *)
(* so that replace, split and the substring test are computed.  A Python   *)
(* call is an operator that returns a record whose field exc names the     *)
(* exception the call raised ("none" when it returned) and whose field val *)
(* is the value returned.                                                  *)
(***************************************************************************)
EXTENDS Integers, Sequences, FiniteSets, TLC

VARIABLES root, dirs, store, repo, caches, envSteps, last,
          CURRENT_MODEL_TYPE, CURRENT_MODEL, loads, request

\* the state of the Gradio front-end: its two module globals, the number of
\* models from_pretrained has built and the record of its last call
gradio == <<CURRENT_MODEL_TYPE, CURRENT_MODEL, loads, request>>

vars == <<root, dirs, store, repo, caches, envSteps, last, gradio>>

(***************************************************************************)
(* Bounds of the model.                                                    *)
(***************************************************************************)
MaxEnvSteps == 2      \* changes made from outside the program, per behaviour
MaxContent == 2       \* distinct file contents
MaxSnapshots == 1     \* snapshot subdirectories per artifact directory
MaxMtime == 2         \* distinct modification times
MaxRef == 1           \* commits of the remote after the first
MaxLoads == 4         \* models built by from_pretrained, per behaviour

Contents == 1..MaxContent

(***************************************************************************)
(* Generic helpers on sequences.                                           *)
(***************************************************************************)
Range(s) == {s[i] : i \in 1..Len(s)}

(***************************************************************************)
(* ArtifactRegistry.                                                       *)
(***************************************************************************)
Hybrid == <<"Zyphra", "/", "Zonos-v0.1-hybrid">>
Transformer == <<"Zyphra", "/", "Zonos-v0.1-transformer">>

\* list(MODEL_CONFIGS.keys()): the registry in insertion order
ModelNames == <<Hybrid, Transformer>>

MODEL_CONFIGS ==
    [m \in {Hybrid, Transformer} |->
        IF m = Hybrid
        THEN [name |-> "hybrid_model",
              description |-> "Zonos v0.1 Hybrid Model",
              files_to_check |-> <<"config.json", "pytorch_model.bin", "tokenizer.json">>]
        ELSE [name |-> "transformer_model",
              description |-> "Zonos v0.1 Transformer Model",
              files_to_check |-> <<"config.json", "pytorch_model.bin", "tokenizer.json">>]]

ReqFiles == UNION {Range(MODEL_CONFIGS[m].files_to_check) : m \in DOMAIN MODEL_CONFIGS}

(***************************************************************************)
(* Python str operations used by the resolver, on token sequences.         *)
(***************************************************************************)
\* s.replace("/", "--")
str_replace(s) == [i \in 1..Len(s) |-> IF s[i] = "/" THEN "--" ELSE s[i]]

\* s.split("/")[-1]
str_last_segment(s) ==
    LET seps == {i \in 1..Len(s) : s[i] = "/"}
        from == IF seps = {} THEN 1
                ELSE 1 + CHOOSE i \in seps : \A j \in seps : j <= i
    IN SubSeq(s, from, Len(s))

\* sub in s
str_contains(sub, s) ==
    \E i \in 0..(Len(s) - Len(sub)) : SubSeq(s, i + 1, i + Len(sub)) = sub

(***************************************************************************)
(* The cache tree.  root says whether models_dir exists; dirs gives, for   *)
(* every name an immediate child of models_dir can have in the model, the  *)
(* entry of that name.  A file is 0 (missing), -1 (present but unreadable) *)
(* or its content.                                                         *)
(***************************************************************************)
NsHybrid == <<"models", "--", "Zyphra", "--", "Zonos-v0.1-hybrid">>
FlatHybrid == <<"Zyphra", "--", "Zonos-v0.1-hybrid">>
SegHybrid == <<"Zonos-v0.1-hybrid">>
BakHybrid == <<"Zonos-v0.1-hybrid", ".bak">>
NsTransformer == <<"models", "--", "Zyphra", "--", "Zonos-v0.1-transformer">>
OldHybrid == <<"old", "Zonos-v0.1-hybrid">>

DirNames == {NsHybrid, FlatHybrid, SegHybrid, BakHybrid, OldHybrid, NsTransformer}

Missing == 0
Unreadable == -1
FileStates == {Missing, Unreadable} \cup Contents

NoFiles == [f \in ReqFiles |-> Missing]
AllFiles(c) == [f \in ReqFiles |-> c]

NoEntry == [kind |-> "none", files |-> NoFiles, snaps |-> <<>>]
FileEntry == [kind |-> "file", files |-> NoFiles, snaps |-> <<>>]
DirEntry(files, snaps) == [kind |-> "dir", files |-> files, snaps |-> snaps]

\* Path.exists() and Path.is_dir() of models_dir / name
\* models_dir does not exist
NoFS == [root |-> FALSE, dirs |-> [n \in DirNames |-> NoEntry]]

path_exists(fs, name) == fs.root /\ name \in DirNames /\ fs.dirs[name].kind # "none"
path_is_dir(fs, name) == fs.root /\ name \in DirNames /\ fs.dirs[name].kind = "dir"

\* models_dir.iterdir() yields the entries in an arbitrary order.  The scan
\* of the resolver can only tell the order of BakHybrid and OldHybrid (the
\* names that hold a last segment and are not one of the three tried
\* forms), so an order and its reverse give every outcome.
IterOrder == <<NsHybrid, FlatHybrid, SegHybrid, BakHybrid, OldHybrid, NsTransformer>>
Reverse(s) == [i \in 1..Len(s) |-> s[Len(s) + 1 - i]]
IterOrders == {IterOrder, Reverse(IterOrder)}

RECURSIVE iterdir(_, _)
iterdir(fs, order) ==
    IF order = <<>> THEN <<>>
    ELSE IF path_exists(fs, Head(order))
         THEN <<Head(order)>> \o iterdir(fs, Tail(order))
         ELSE iterdir(fs, Tail(order))

(***************************************************************************)
(* Python values of the resolver's path arithmetic.                        *)
(***************************************************************************)
PyStr(s) == [type |-> "str", v |-> s]
PyPath(name) == [type |-> "Path", v |-> name]

Ret(v) == [exc |-> "none", val |-> v]
Raise(e) == [exc |-> e, val |-> FALSE]

\* models_dir / s : the child of models_dir named s
path_truediv(s) == PyPath(s.v)

\* a + b : defined for two str, TypeError for a Path and a str
py_add(a, b) ==
    IF a.type = "str" /\ b.type = "str"
    THEN [exc |-> "none", val |-> PyStr(a.v \o b.v)]
    ELSE [exc |-> "TypeError", val |-> a]

\* Optional[Path]
None == [name |-> <<>>, some |-> FALSE]
Some(name) == [name |-> name, some |-> TRUE]

\* The scan of models_dir.iterdir(): the first subdirectory whose name
\* contains the last segment.
RECURSIVE scan_subdirs(_, _, _)
scan_subdirs(fs, listing, seg) ==
    IF listing = <<>> THEN None
    ELSE IF path_is_dir(fs, Head(listing)) /\ str_contains(seg, Head(listing))
         THEN Some(Head(listing))
         ELSE scan_subdirs(fs, Tail(listing), seg)

\* The loop over possible_paths: the first one that exists.
RECURSIVE first_existing(_, _)
first_existing(fs, paths) ==
    IF paths = <<>> THEN None
    ELSE IF path_exists(fs, Head(paths)) THEN Some(Head(paths))
         ELSE first_existing(fs, Tail(paths))

\* get_model_cache_path(model_name, models_dir).  The first element of
\* possible_paths is  models_dir / "models--" + model_name.replace(...):
\* "/" binds tighter than "+", so a str is added to a Path.
get_model_cache_path(model_name, fs, order) ==
    LET p1 == py_add(path_truediv(PyStr(<<"models", "--">>)), PyStr(str_replace(model_name)))
        p2 == path_truediv(PyStr(str_replace(model_name)))
        p3 == path_truediv(PyStr(str_last_segment(model_name)))
    IN IF p1.exc # "none" THEN Raise(p1.exc)
       ELSE LET found == first_existing(fs, <<p1.val.v, p2.v, p3.v>>)
            IN IF found.some THEN Ret(found)
               ELSE IF ~fs.root THEN Raise("FileNotFoundError")
               ELSE Ret(scan_subdirs(fs, iterdir(fs, order), str_last_segment(model_name)))

(***************************************************************************)
(* JSON values as json.load returns them: dict, list, str and number, in   *)
(* one record shape.  m is the mapping of a dict, a the elements of a      *)
(* list, s the tokens of a str.                                            *)
(***************************************************************************)
EmptyMap == [k \in {} |-> FALSE]

JObj(m) == [s |-> <<>>, m |-> m, a |-> <<>>, t |-> "obj"]
JArr(a) == [s |-> <<>>, m |-> EmptyMap, a |-> a, t |-> "arr"]
JStr(s) == [s |-> s, m |-> EmptyMap, a |-> <<>>, t |-> "str"]
JNum == [s |-> <<>>, m |-> EmptyMap, a |-> <<>>, t |-> "num"]

\* key in v
py_in(key, v) ==
    IF v.t = "obj" THEN Ret(key \in DOMAIN v.m)
    ELSE IF v.t = "arr" THEN Ret(\E i \in 1..Len(v.a) : v.a[i] = JStr(<<key>>))
    ELSE IF v.t = "str" THEN Ret(str_contains(<<key>>, v.s))
    ELSE Raise("TypeError")

\* v[key] for a str key
py_getitem(v, key) ==
    IF v.t = "obj"
    THEN IF key \in DOMAIN v.m THEN Ret(v.m[key]) ELSE Raise("KeyError")
    ELSE Raise("TypeError")

\* d[key] = value on a copy of d
py_setitem(v, key, value) ==
    IF v.t = "obj"
    THEN Ret(JObj([k \in DOMAIN v.m \cup {key} |-> IF k = key THEN value ELSE v.m[k]]))
    ELSE Raise("TypeError")

(***************************************************************************)
(* The verification store document at models_dir / MODEL_VERIFICATION_FILE.*)
(* kind is "absent" (no file), "empty" (zero bytes), "malformed" (text     *)
(* that is not JSON), "undecodable" (bytes that are not text) or "json"    *)
(* (a document json.load accepts, val).                                    *)
(***************************************************************************)
Absent == [kind |-> "absent", val |-> JNum]
Doc(kind) == [kind |-> kind, val |-> JNum]
JsonDoc(v) == [kind |-> "json", val |-> v]

\* json.load(open(verification_file, 'r'))
json_load(st) ==
    IF st.kind = "absent" THEN Raise("FileNotFoundError")
    ELSE IF st.kind = "undecodable" THEN Raise("UnicodeDecodeError")
    ELSE IF st.kind \in {"empty", "malformed"} THEN Raise("JSONDecodeError")
    ELSE Ret(st.val)

load_verification_data_uncaught(st) ==
    IF st.kind = "absent" THEN Ret(JObj(EmptyMap))
    ELSE LET r == json_load(st)
         IN IF r.exc = "FileNotFoundError" THEN Ret(JObj(EmptyMap)) ELSE r

load_verification_data(st) ==
    IF st.kind = "absent" THEN Ret(JObj(EmptyMap))
    ELSE LET r == json_load(st)
         IN IF r.exc \in {"JSONDecodeError", "FileNotFoundError"}
            THEN Ret(JObj(EmptyMap))
            ELSE r

(***************************************************************************)
(* Hashing.  The SHA256 hex digest of a content is a non-empty str that    *)
(* differs for different contents; "" is returned for a file that cannot   *)
(* be opened.                                                              *)
(***************************************************************************)
hexdigest(c) == <<"sha256">> \o [i \in 1..c |-> "0"]

calculate_file_hash(f) ==
    IF f \in {Missing, Unreadable} THEN <<>> ELSE hexdigest(f)

(***************************************************************************)
(* The effective file root of a resolved location: the snapshot            *)
(* subdirectory max(snapshots, key=st_mtime) picks, the location itself    *)
(* when there is no snapshot subdirectory.  snaps lists the subdirectories *)
(* of cache_path / "snapshots" in iterdir order; an absent and an empty    *)
(* "snapshots" directory both are <<>>.                                    *)
(***************************************************************************)
\* max(snapshots, key=...): the first element with the largest key
py_max_mtime(snaps) ==
    CHOOSE i \in 1..Len(snaps) :
        /\ \A j \in 1..Len(snaps) : snaps[j].mtime <= snaps[i].mtime
        /\ \A j \in 1..(i - 1) : snaps[j].mtime < snaps[i].mtime

model_files_dir(fs, name) ==
    LET e == fs.dirs[name]
    IN IF e.kind = "dir" /\ e.snaps # <<>>
       THEN e.snaps[py_max_mtime(e.snaps)].files
       ELSE e.files

(***************************************************************************)
(* IntegrityVerifier.                                                      *)
(***************************************************************************)
\* The loop over files_to_check of verify_model_integrity.
RECURSIVE verify_files(_, _, _)
verify_files(files, present, stored_hashes) ==
    IF files = <<>> THEN Ret(TRUE)
    ELSE LET file_name == Head(files)
             current_hash == calculate_file_hash(present[file_name])
             has == py_in(file_name, stored_hashes)
             item == py_getitem(stored_hashes, file_name)
         IN IF present[file_name] = Missing THEN Ret(FALSE)
            ELSE IF current_hash = <<>> THEN Ret(FALSE)
            ELSE IF has.exc # "none" THEN Raise(has.exc)
            ELSE IF ~has.val THEN Ret(FALSE)
            ELSE IF item.exc # "none" THEN Raise(item.exc)
            ELSE IF item.val # JStr(current_hash) THEN Ret(FALSE)
            ELSE verify_files(Tail(files), present, stored_hashes)

verify_model_integrity(model_name, fs, verification_data, order) ==
    IF model_name \notin DOMAIN MODEL_CONFIGS THEN Ret(FALSE)
    ELSE LET model_config == MODEL_CONFIGS[model_name]
             cache_path == get_model_cache_path(model_name, fs, order)
             model_key == model_config.name
             has == py_in(model_key, verification_data)
             stored_hashes == py_getitem(verification_data, model_key)
         IN IF cache_path.exc # "none" THEN Raise(cache_path.exc)
            ELSE IF ~cache_path.val.some \/ ~path_exists(fs, cache_path.val.name)
                 THEN Ret(FALSE)
            ELSE IF has.exc # "none" THEN Raise(has.exc)
            ELSE IF ~has.val THEN Ret(FALSE)
            ELSE IF stored_hashes.exc # "none" THEN Raise(stored_hashes.exc)
            ELSE verify_files(model_config.files_to_check,
                              model_files_dir(fs, cache_path.val.name),
                              stored_hashes.val)

\* The files verify_model_integrity hashes, in order, and the directory it
\* takes them from: the resolved location (name) and the snapshot
\* subdirectory of it (snap, the index in snaps; 0 for the location itself).
NoReads == [name |-> <<>>, files |-> <<>>, snap |-> 0]

RECURSIVE hashed_files(_, _, _)
hashed_files(files, present, stored_hashes) ==
    IF files = <<>> \/ present[Head(files)] = Missing THEN <<>>
    ELSE <<Head(files)>> \o
             (IF verify_files(<<Head(files)>>, present, stored_hashes) = Ret(TRUE)
              THEN hashed_files(Tail(files), present, stored_hashes)
              ELSE <<>>)

verify_reads(model_name, fs, verification_data, order) ==
    LET cache_path == get_model_cache_path(model_name, fs, order)
        model_key == MODEL_CONFIGS[model_name].name
        has == py_in(model_key, verification_data)
        stored_hashes == py_getitem(verification_data, model_key)
        e == fs.dirs[cache_path.val.name]
    IN IF cache_path.exc # "none" THEN NoReads
       ELSE IF ~cache_path.val.some \/ ~path_exists(fs, cache_path.val.name) THEN NoReads
       ELSE IF has.exc # "none" THEN NoReads
       ELSE IF ~has.val THEN NoReads
       ELSE IF stored_hashes.exc # "none" THEN NoReads
       ELSE [name |-> cache_path.val.name,
             files |-> hashed_files(MODEL_CONFIGS[model_name].files_to_check,
                                    model_files_dir(fs, cache_path.val.name),
                                    stored_hashes.val),
             snap |-> IF e.kind = "dir" /\ e.snaps # <<>> THEN py_max_mtime(e.snaps) ELSE 0]

(***************************************************************************)
(* VerificationStore: the record written after a download.                 *)
(***************************************************************************)
\* model_hashes: a digest for every required file that exists
model_hashes(files, present) ==
    [f \in {g \in Range(files) : present[g] # Missing} |->
        JStr(calculate_file_hash(present[f]))]

\* datetime.now().isoformat(): the time of the call, one value in the model
DownloadTime == <<"iso-8601">>

verification_record(model_name, cache_name, hashes) ==
    JObj([k \in {"hashes", "model_name", "download_time", "cache_path"} |->
            IF k = "hashes" THEN JObj(hashes)
            ELSE IF k = "model_name" THEN JStr(model_name)
            ELSE IF k = "download_time" THEN JStr(DownloadTime)
            ELSE JStr(cache_name)])

\* save_model_verification(model_name, models_dir, verification_file); val is
\* the store document after the call.  write says whether the file could be
\* opened for writing.
save_model_verification(model_name, fs, st, order, write) ==
    IF model_name \notin DOMAIN MODEL_CONFIGS THEN Ret(st)
    ELSE LET model_config == MODEL_CONFIGS[model_name]
             loaded == json_load(st)
             verification_data ==
                 IF st.kind = "absent" THEN Ret(JObj(EmptyMap))
                 ELSE IF loaded.exc \in {"JSONDecodeError", "FileNotFoundError"}
                      THEN Ret(JObj(EmptyMap))
                      ELSE loaded
             cache_path == get_model_cache_path(model_name, fs, order)
             hashes == model_hashes(model_config.files_to_check,
                                    model_files_dir(fs, cache_path.val.name))
             updated == py_setitem(verification_data.val, model_config.name,
                            verification_record(model_name, cache_path.val.name, hashes))
         IN IF verification_data.exc # "none" THEN Raise(verification_data.exc)
            ELSE IF cache_path.exc # "none" THEN Raise(cache_path.exc)
            ELSE IF ~cache_path.val.some THEN Ret(st)
            ELSE IF updated.exc # "none" THEN Raise(updated.exc)
            ELSE IF write /\ fs.root THEN Ret(JsonDoc(updated.val))
            ELSE Ret(st)

(***************************************************************************)
(* The external fetch call Zonos.from_pretrained(model_name, ...).  Its    *)
(* code is not part of the program: it raises, is interrupted from the     *)
(* keyboard, or returns after it has left its files somewhere below        *)
(* models_dir.  "ok" leaves the namespaced directory of the model with     *)
(* every required file, "partial" leaves it with config.json only, and     *)
(* "hidden" leaves nothing among the immediate children of models_dir.     *)
(***************************************************************************)
FetchOutcome(kind, c) == [kind |-> kind, c |-> c]

FetchOutcomes ==
    {FetchOutcome(k, 0) : k \in {"raise", "interrupt", "hidden"}}
        \cup {FetchOutcome(k, c) : k \in {"ok", "partial"}, c \in Contents}

namespaced(model_name) == <<"models", "--">> \o str_replace(model_name)

from_pretrained(fs, model_name, out) ==
    IF out.kind = "ok"
    THEN [root |-> TRUE,
          dirs |-> [fs.dirs EXCEPT ![namespaced(model_name)] = DirEntry(AllFiles(out.c), <<>>)]]
    ELSE IF out.kind = "partial"
    THEN [root |-> TRUE,
          dirs |-> [fs.dirs EXCEPT ![namespaced(model_name)] =
                        DirEntry([NoFiles EXCEPT !["config.json"] = out.c], <<>>)]]
    ELSE fs

(***************************************************************************)
(* SyncOrchestrator: download_models().  The result holds the cache tree   *)
(* and the store after the call, the calls made in order (events), the     *)
(* models appended to downloaded_models and the exception that left the    *)
(* function ("none" when it returned; sys.exit(1) is "SystemExit").        *)
(***************************************************************************)
Event(op, model_name, res) == [op |-> op, res |-> res, model |-> model_name]

\* The body of  for model_name in models_to_download
RECURSIVE download_loop(_, _, _, _)
download_loop(i, acc, verification_data, inp) ==
    IF i > Len(ModelNames) THEN acc
    ELSE LET model_name == ModelNames[i]
             verified == verify_model_integrity(model_name, acc.fs, verification_data, inp.order)
             out == inp.fetch[i]
             fs2 == from_pretrained(acc.fs, model_name, out)
             saved == save_model_verification(model_name, fs2, acc.store, inp.order, inp.write)
             model_cache_path == get_model_cache_path(model_name, fs2, inp.order)
             checked == Append(acc.events, Event("verify", model_name, "False"))
             fetched == Append(checked, Event("fetch", model_name, "returned"))
         IN IF verified.exc # "none"
            THEN [acc EXCEPT !.events = Append(@, Event("verify", model_name, verified.exc)),
                             !.exc = "SystemExit"]
            ELSE IF verified.val
            THEN download_loop(i + 1,
                     [acc EXCEPT !.events = Append(@, Event("verify", model_name, "True"))],
                     verification_data, inp)
            ELSE IF out.kind = "raise"
            THEN [acc EXCEPT !.events = Append(checked, Event("fetch", model_name, "raised")),
                             !.exc = "SystemExit"]
            ELSE IF out.kind = "interrupt"
            THEN [acc EXCEPT !.events = Append(checked, Event("fetch", model_name, "interrupted")),
                             !.exc = "KeyboardInterrupt"]
            ELSE IF saved.exc # "none"
            THEN [acc EXCEPT !.fs = fs2,
                             !.events = Append(fetched, Event("save", model_name, saved.exc)),
                             !.exc = "SystemExit"]
            ELSE IF model_cache_path.exc # "none"
            THEN [acc EXCEPT !.fs = fs2, !.store = saved.val,
                             !.events = Append(fetched, Event("save", model_name, "returned")),
                             !.downloaded = Append(@, model_name),
                             !.exc = "SystemExit"]
            ELSE download_loop(i + 1,
                     [acc EXCEPT !.fs = fs2, !.store = saved.val,
                                 !.events = Append(fetched, Event("save", model_name, "returned")),
                                 !.downloaded = Append(@, model_name)],
                     verification_data, inp)

\* inp: mkdir (models_dir could be created), import (torch and zonos could
\* be imported), fetch (the outcome of the fetch call per registry index),
\* order (of iterdir), write (the store file could be opened for writing)
download_models(fs, st, inp) ==
    LET fs1 == IF fs.root THEN fs ELSE [fs EXCEPT !.root = inp.mkdir]
        verification_data == load_verification_data(st)
        start == [store |-> st, fs |-> fs1, exc |-> "none",
                  events |-> <<>>, downloaded |-> <<>>]
    IN IF verification_data.exc # "none"
       THEN [start EXCEPT !.exc = verification_data.exc]
       ELSE IF ~inp.import
       THEN [start EXCEPT !.exc = "SystemExit"]
       ELSE download_loop(1, start, verification_data.val, inp)

\* The exit status of the process when a command ends with exception exc:
\* main turns every exception into sys.exit(1).
exit_status(exc) == IF exc = "none" THEN 0 ELSE 1

(***************************************************************************)
(* verify-models: verify_models().  The result holds the cache tree and    *)
(* the store after the call, the calls made in order and the exception     *)
(* that left the function (sys.exit(1) is "SystemExit").                   *)
(***************************************************************************)
\* bool(v) of a JSON value; JNum stands for a number other than 0
py_truthy(v) ==
    IF v.t = "obj" THEN DOMAIN v.m # {}
    ELSE IF v.t = "arr" THEN v.a # <<>>
    ELSE IF v.t = "str" THEN v.s # <<>>
    ELSE TRUE

\* The body of  for model_name in MODEL_CONFIGS.keys()  of verify_models
RECURSIVE verify_loop(_, _, _, _)
verify_loop(i, acc, verification_data, order) ==
    IF i > Len(ModelNames) THEN acc
    ELSE LET model_name == ModelNames[i]
             verified == verify_model_integrity(model_name, acc.fs, verification_data, order)
         IN IF verified.exc # "none"
            THEN [acc EXCEPT !.events = Append(@, Event("verify", model_name, verified.exc)),
                             !.exc = verified.exc]
            ELSE verify_loop(i + 1,
                     [acc EXCEPT !.events = Append(@, Event("verify", model_name,
                                      IF verified.val THEN "True" ELSE "False"))],
                     verification_data, order)

verify_models_rewriting(fs, st, order) ==
    LET verification_data == load_verification_data(st)
        start == [store |-> st, fs |-> fs, exc |-> "none", events |-> <<>>]
    IN IF ~fs.root THEN [start EXCEPT !.exc = "SystemExit"]
       ELSE IF verification_data.exc # "none"
       THEN [start EXCEPT !.exc = verification_data.exc]
       ELSE IF ~py_truthy(verification_data.val)
       THEN [start EXCEPT !.store = JsonDoc(JObj(EmptyMap))]
       ELSE verify_loop(1, start, verification_data.val, order)

verify_models(fs, st, order) ==
    LET verification_data == load_verification_data(st)
        start == [store |-> st, fs |-> fs, exc |-> "none", events |-> <<>>]
    IN IF ~fs.root THEN [start EXCEPT !.exc = "SystemExit"]
       ELSE IF verification_data.exc # "none"
       THEN [start EXCEPT !.exc = verification_data.exc]
       ELSE IF ~py_truthy(verification_data.val) THEN start
       ELSE verify_loop(1, start, verification_data.val, order)

(***************************************************************************)
(* The version-control client, through run_command.  The outcome of a      *)
(* command is "ok" (return code 0), "nonzero" (another return code) or     *)
(* "oserror" (the program could not be started: run_command ends the       *)
(* process with sys.exit(1)).  val is  returncode == 0.                    *)
(***************************************************************************)
RunOutcomes == {"ok", "nonzero", "oserror"}

run_command(out, check) ==
    IF out = "oserror" \/ (check /\ out = "nonzero") THEN Raise("SystemExit")
    ELSE Ret(out = "ok")

\* The repository INSTALL_DIR / REPO_NAME: HEAD, origin/main and the main
\* branch of the remote are commits of one linear history, numbered from 0.
NoRepo == [exists |-> FALSE, head |-> 0, origin |-> 0, upstream |-> 0]

\* git rev-parse: the hash of commit n, a non-empty str
rev_parse(n) == <<"commit">> \o [i \in 1..n |-> "'"]

\* s[:8]
py_prefix8(s) == IF Len(s) <= 8 THEN s ELSE SubSeq(s, 1, 8)

\* git rev-list --count a..b
rev_list_count(a, b) == IF b > a THEN b - a ELSE 0

\* git fetch origin
git_fetch(rp) == [rp EXCEPT !.origin = rp.upstream]

\* git pull origin main, after git stash
git_pull(rp) == [rp EXCEPT !.origin = rp.upstream,
                           !.head = IF rp.upstream > rp.head THEN rp.upstream ELSE rp.head]

(***************************************************************************)
(* UpdateChecker.  A status is one record shape for both reports: status,  *)
(* the two refs and the distance (repository), the failing artifacts       *)
(* (models) and the message.                                               *)
(***************************************************************************)
Status(status, message) ==
    [status |-> status, message |-> message, current |-> <<>>, remote |-> <<>>,
     commits_behind |-> 0, latest_message |-> "", models |-> <<>>]

GitRun(chdir, fetch, head, remote, count, message) ==
    [fetch |-> fetch, head |-> head, message |-> message, remote |-> remote,
     chdir |-> chdir, count |-> count]

GitOk == GitRun(TRUE, "ok", "ok", "ok", "ok", "ok")

\* git: chdir (os.chdir(repo_path) succeeded) and the outcome of each of the
\* five commands.  val is the status, repo the repository after the call.
check_repository_updates(rp, git) ==
    LET fetched == IF git.fetch = "ok" THEN git_fetch(rp) ELSE rp
        current_commit == IF git.head = "ok" THEN rev_parse(fetched.head) ELSE <<>>
        remote_commit == IF git.remote = "ok" THEN rev_parse(fetched.origin) ELSE <<>>
        commits_behind == IF git.count = "ok"
                          THEN rev_list_count(fetched.head, fetched.origin) ELSE 0
        latest_message == IF git.message = "ok" THEN "subject" ELSE "No message"
        result(exc, st, r) == [repo |-> r, exc |-> exc, val |-> st]
    IN IF ~rp.exists
       THEN result("none", Status("not_installed", "Repository not found"), rp)
       ELSE IF ~git.chdir
       THEN result("none", Status("error", "OSError"), rp)
       ELSE IF run_command(git.fetch, FALSE).exc # "none"
       THEN result("SystemExit", Status("none", ""), rp)
       ELSE IF run_command(git.head, FALSE).exc # "none"
                 \/ run_command(git.remote, FALSE).exc # "none"
       THEN result("SystemExit", Status("none", ""), fetched)
       ELSE IF current_commit = <<>> \/ remote_commit = <<>>
       THEN result("none", Status("error", "Could not determine commit status"), fetched)
       ELSE IF current_commit = remote_commit
       THEN result("none", [Status("up_to_date", "") EXCEPT
                                !.current = py_prefix8(current_commit)], fetched)
       ELSE IF run_command(git.count, FALSE).exc # "none"
                 \/ run_command(git.message, FALSE).exc # "none"
       THEN result("SystemExit", Status("none", ""), fetched)
       ELSE result("none", [Status("update_available", "") EXCEPT
                                !.current = py_prefix8(current_commit),
                                !.remote = py_prefix8(remote_commit),
                                !.commits_behind = commits_behind,
                                !.latest_message = latest_message], fetched)

\* The body of  for model_name in MODEL_CONFIGS.keys()  of check_model_updates:
\* out is the outcome of the fetch call, fs2 the cache tree after it,
\* verified the outcome of the verification
Failing(model_name, reason) == [model_name |-> model_name, reason |-> reason]

check_model(acc, model_name, out, fs2, verified) ==
    LET probed == Append(acc.events, Event("fetch", model_name, "returned"))
    IN IF out.kind = "interrupt"
       THEN [acc EXCEPT !.events = Append(@, Event("fetch", model_name, "interrupted")),
                        !.exc = "KeyboardInterrupt"]
       ELSE IF out.kind = "raise"
       THEN [acc EXCEPT !.events = Append(@, Event("fetch", model_name, "raised")),
                        !.models = Append(@, Failing(model_name, "check_failed"))]
       ELSE IF verified.exc # "none"
       THEN [acc EXCEPT !.fs = fs2,
                        !.events = Append(probed, Event("verify", model_name, verified.exc)),
                        !.models = Append(@, Failing(model_name, "check_failed"))]
       ELSE IF ~verified.val
       THEN [acc EXCEPT !.fs = fs2,
                        !.events = Append(probed, Event("verify", model_name, "False")),
                        !.models = Append(@, Failing(model_name, "verification_failed"))]
       ELSE [acc EXCEPT !.fs = fs2,
                        !.events = Append(probed, Event("verify", model_name, "True"))]

RECURSIVE check_loop(_, _, _, _)
check_loop(i, acc, verification_data, inp) ==
    IF i > Len(ModelNames) \/ acc.exc # "none" THEN acc
    ELSE check_loop(i + 1,
             check_model(acc, ModelNames[i], inp.probe[i],
                 from_pretrained(acc.fs, ModelNames[i], inp.probe[i]),
                 verify_model_integrity(ModelNames[i],
                     from_pretrained(acc.fs, ModelNames[i], inp.probe[i]),
                     verification_data, inp.order)),
             verification_data, inp)

\* if updates_available: ... else: ...  (an exception that is no Exception
\* leaves check_model_updates)
check_report(done) ==
    [fs |-> done.fs,
     exc |-> done.exc,
     val |-> IF done.exc # "none" THEN Status("none", "")
             ELSE IF done.models # <<>>
             THEN [Status("updates_available", "") EXCEPT !.models = done.models]
             ELSE Status("up_to_date", "All models are current"),
     events |-> done.events]

\* verification_data: the outcome of load_verification_data
check_models(fs, verification_data, inp) ==
    LET result(exc, status) == [fs |-> fs, exc |-> exc, val |-> status, events |-> <<>>]
        start == [fs |-> fs, exc |-> "none", events |-> <<>>, models |-> <<>>]
    IN IF ~fs.root
       THEN result("none", Status("not_downloaded", "Models not found"))
       ELSE IF verification_data.exc # "none"
       THEN result(verification_data.exc, Status("none", ""))
       ELSE IF ~py_truthy(verification_data.val)
       THEN result("none", Status("no_verification", "No verification data found"))
       ELSE IF inp.import = "ImportError"
       THEN result("none", Status("cannot_check",
                       "Cannot check models - dependencies not available"))
       ELSE IF inp.import # "ok"
       THEN result("none", Status("error", inp.import))
       ELSE check_report(check_loop(1, start, verification_data.val, inp))

\* inp: import (the outcome of importing torch and zonos: "ok", "ImportError"
\* or another exception, "OSError"), probe (the outcome of
\* the fetch call per registry index), order (of iterdir).  val is the
\* status, fs the cache tree after the call, events the calls made.
check_model_updates(fs, st, inp) ==
    check_models(fs, load_verification_data(st), inp)

(***************************************************************************)
(* The two refreshes.                                                      *)
(***************************************************************************)
\* run: the outcome of git stash, git pull, uv sync and uv sync --extra
\* compile.  val is the bool returned, repo the repository after the call.
update_repository(rp, run) ==
    LET result(exc, v, r) == [repo |-> r, exc |-> exc, val |-> v]
    IN IF ~rp.exists THEN result("none", FALSE, rp)
       ELSE IF run_command(run.stash, FALSE).exc # "none"
                 \/ run_command(run.pull, FALSE).exc # "none"
       THEN result("SystemExit", FALSE, rp)
       ELSE IF ~run_command(run.pull, FALSE).val THEN result("none", FALSE, rp)
       ELSE IF run_command(run.sync, FALSE).exc # "none"
                 \/ run_command(run.sync_compile, FALSE).exc # "none"
       THEN result("SystemExit", FALSE, git_pull(rp))
       ELSE result("none", TRUE, git_pull(rp))

\* try: ... download_models() ... return True  with r the outcome of
\* download_models.  SystemExit and KeyboardInterrupt are no Exception and
\* leave update_models.
redownloaded(r) ==
    [store |-> r.store,
     fs |-> r.fs,
     exc |-> IF r.exc \in {"SystemExit", "KeyboardInterrupt"} THEN r.exc ELSE "none", val |-> r.exc = "none", events |-> r.events]

\* st1: the store after  verification_file.unlink()
force_download(fs, st1, rp, inp) ==
    IF ~rp.exists
    THEN [store |-> st1, fs |-> fs, exc |-> "none", val |-> FALSE, events |-> <<>>]
    ELSE redownloaded(download_models(fs, st1, inp.download))

\* inp: unlink (the store file could be removed), download (the inputs of
\* download_models).
update_models(fs, st, rp, inp) ==
    force_download(fs, IF st.kind # "absent" /\ inp.unlink THEN Absent ELSE st, rp, inp)

(***************************************************************************)
(* UpdateCoordinator: update_zonos().                                      *)
(***************************************************************************)
\* What the operator may type at a prompt, and  .strip().lower()  of it
Answers == {"yes", " Y", "no", "repo", "models", "Both ", "none", "maybe"}

strip_lower(a) ==
    IF a = " Y" THEN "y" ELSE IF a = "Both " THEN "both" ELSE a

\* The prompt of lines 1337-1353: "none" (no prompt), "combined", "repo" or
\* "models"
prompt_kind_always(repo_needs_update, model_needs_update) ==
    IF repo_needs_update = model_needs_update THEN "combined"
    ELSE IF repo_needs_update THEN "repo"
    ELSE "models"

prompt_kind(repo_needs_update, model_needs_update) ==
    IF ~repo_needs_update /\ ~model_needs_update THEN "none"
    ELSE IF repo_needs_update /\ model_needs_update THEN "combined"
    ELSE IF repo_needs_update THEN "repo"
    ELSE "models"

\* choice = token if choice in ["yes", "y"] else "none"
single_choice_always(choice, token) == token

single_choice(choice, token) ==
    IF choice \in {"yes", "y"} THEN token ELSE "none"

Log(message) == Event("log", <<>>, message)

\* u: the outcome of update_repository()
repository_applied(r, u) ==
    LET started == Append(r.events, Event("update_repository", <<>>, "started"))
    IN IF u.exc # "none"
       THEN [r EXCEPT !.repo = u.repo, !.exc = u.exc,
                      !.events = Append(started, Event("update_repository", <<>>, u.exc))]
       ELSE [r EXCEPT !.repo = u.repo,
                      !.events = started \o
                          <<Event("update_repository", <<>>, IF u.val THEN "True" ELSE "False"),
                            Log(IF u.val THEN "Repository update completed successfully!"
                                ELSE "Repository update failed!")>>]

\* if choice in ["repo", "both"]: ... update_repository()
apply_repository(r, choice, run) ==
    IF r.exc = "none" /\ choice \in {"repo", "both"}
    THEN repository_applied(r, update_repository(r.repo, run))
    ELSE r

\* u: the outcome of update_models()
models_applied(r, u) ==
    LET started == Append(r.events, Event("update_models", <<>>, "started")) \o u.events
    IN IF u.exc # "none"
       THEN [r EXCEPT !.fs = u.fs, !.store = u.store, !.exc = u.exc,
                      !.events = Append(started, Event("update_models", <<>>, u.exc))]
       ELSE [r EXCEPT !.fs = u.fs, !.store = u.store,
                      !.events = started \o
                          <<Event("update_models", <<>>, IF u.val THEN "True" ELSE "False"),
                            Log(IF u.val THEN "Model update completed successfully!"
                                ELSE "Model update failed!")>>]

\* if choice in ["models", "both"]: ... update_models()
apply_models_whatever_choice(r, choice, inp) ==
    IF r.exc = "none"
    THEN models_applied(r, update_models(r.fs, r.store, r.repo, inp))
    ELSE r

apply_models(r, choice, inp) ==
    IF r.exc = "none" /\ choice \in {"models", "both"}
    THEN models_applied(r, update_models(r.fs, r.store, r.repo, inp))
    ELSE r

\* "Apply updates", lines 1355-1368: the repository first
apply_updates_models_first(r, choice, inp) ==
    apply_repository(apply_models(r, choice, inp.models), choice, inp.run)

apply_updates(r, choice, inp) ==
    apply_models(apply_repository(r, choice, inp.run), choice, inp.models)

\* lines 1370-1374, with applied the run after "Apply updates"
update_completed(applied, choice) ==
    IF applied.exc # "none" THEN applied
    ELSE [applied EXCEPT !.events =
              (IF choice = "none" THEN Append(@, Log("Update cancelled by user."))
               ELSE @) \o <<Log("Update check completed!")>>]

\* lines 1341-1374, with kind the prompt and typed what the operator typed,
\* stripped and in lower case
update_chosen(checked, kind, answer, choice, inp) ==
    update_completed(
        apply_updates([checked EXCEPT !.events = @ \o <<Event("prompt", <<>>, kind),
                                                        Event("input", <<>>, answer)>>],
                      choice, inp),
        choice)

\* lines 1292-1374, with the two reports
update_checked(s, inp, repo_status, model_status) ==
    LET failed == [store |-> s.store, repo |-> repo_status.repo, fs |-> s.fs,
                   exc |-> repo_status.exc, events |-> <<>>,
                   repo_status |-> repo_status.val, model_status |-> Status("none", "")]
        checked == [failed EXCEPT !.exc = model_status.exc, !.fs = model_status.fs,
                                  !.events = model_status.events,
                                  !.model_status = model_status.val]
        repo_needs_update == repo_status.val.status = "update_available"
        model_needs_update == model_status.val.status = "updates_available"
        kind == prompt_kind(repo_needs_update, model_needs_update)
        typed == strip_lower(inp.answer)
        choice == IF kind = "combined" THEN typed ELSE single_choice(typed, kind)
    IN IF repo_status.exc # "none" THEN failed
       ELSE IF model_status.exc # "none" THEN checked
       ELSE IF repo_status.val.status = "not_installed" THEN checked
       ELSE IF kind = "none"
       THEN [checked EXCEPT !.events = Append(@, Log("Everything is up to date!"))]
       ELSE update_chosen(checked, kind, inp.answer, choice, inp)

\* s: the cache tree, the store and the repository.  inp: git and check (the
\* inputs of the two checks), answer (what the operator types), run and
\* models (the inputs of the two refreshes).
update_zonos(s, inp) ==
    update_checked(s, inp, check_repository_updates(s.repo, inp.git),
                   check_model_updates(s.fs, s.store, inp.check))

(***************************************************************************)
(* uninstall_zonos().  The list uninstall_errors is no name of the         *)
(* function: its first use raises NameError, in the handler of a failed    *)
(* removal or at the summary.  fail names the target whose rmtree fails    *)
(* ("none": no removal fails); a failed rmtree leaves its target in place. *)
(***************************************************************************)
CacheDirs == <<"transformers", "datasets", ".cache", "~/.cache/huggingface/transformers">>

RECURSIVE remove_caches(_, _, _)
remove_caches(i, acc, fail) ==
    IF i > Len(CacheDirs) THEN acc
    ELSE IF CacheDirs[i] \notin acc.caches THEN remove_caches(i + 1, acc, fail)
    ELSE IF CacheDirs[i] = fail THEN [acc EXCEPT !.exc = "NameError"]
    ELSE remove_caches(i + 1,
             [acc EXCEPT !.caches = @ \ {CacheDirs[i]},
                         !.events = Append(@, Event("rmtree", <<>>, CacheDirs[i]))],
             fail)

uninstall_zonos(s, fail) ==
    LET start == [store |-> s.store, repo |-> s.repo, caches |-> s.caches, fs |-> s.fs,
                  exc |-> "none", events |-> <<>>]
        no_repo == IF s.repo.exists
                   THEN [start EXCEPT !.repo = NoRepo,
                                      !.events = Append(@, Event("rmtree", <<>>, "repo"))]
                   ELSE start
        no_models == IF s.fs.root
                     THEN [no_repo EXCEPT !.fs = NoFS, !.store = Absent,
                                          !.events = Append(@, Event("rmtree", <<>>, "models"))]
                     ELSE no_repo
        no_caches == remove_caches(1, no_models, fail)
    IN IF s.repo.exists /\ fail = "repo" THEN [start EXCEPT !.exc = "NameError"]
       ELSE IF s.fs.root /\ fail = "models" THEN [no_repo EXCEPT !.exc = "NameError"]
       ELSE [no_caches EXCEPT !.exc = "NameError"]

(***************************************************************************)
(* The state: the cache tree (root, dirs), the store document, the         *)
(* repository, the cache directories the uninstall looks for (caches), the *)
(* number of changes made from outside, and the record of the last call.   *)
(***************************************************************************)
FS == [root |-> root, dirs |-> dirs]

Here == [store |-> store, repo |-> repo, caches |-> caches, fs |-> FS]

Nowhere == [store |-> Absent, repo |-> NoRepo, caches |-> {}, fs |-> NoFS]

\* last: the call (cmd, model), the exception that left it (exc), what it
\* returned (ret, path or data, by the call), the files a verification
\* hashed (reads), the calls a pass made (events,
\* downloaded), the exit status of the process had the call been the whole
\* command (exit), the two reports of an update check (repo_status,
\* model_status), the outcomes of the git commands of the repository check
\* (git) and what the call started from (pre).
NoRun == [exc |-> "none", model |-> <<>>, events |-> <<>>, downloaded |-> <<>>,
          git |-> GitOk, repo_status |-> Status("none", ""),
          model_status |-> Status("none", ""), cmd |-> "none", ret |-> FALSE, path |-> None,
          data |-> JNum, reads |-> NoReads, exit |-> 0, pre |-> Nowhere]

(***************************************************************************)
(* The values of the module globals of gradio_interface.py.  A global is   *)
(* unbound after del, None as the module sets it, or a model built by      *)
(* from_pretrained: type is the model_choice it was built for, load the    *)
(* number of the build, compiled whether torch.compile replaced it.        *)
(***************************************************************************)
PyNone == <<>>

Unbound == [kind |-> "unbound", type |-> PyNone, load |-> 0, compiled |-> FALSE]

NoModel == [kind |-> "None", type |-> PyNone, load |-> 0, compiled |-> FALSE]

Loaded(model_choice, n, compiled) ==
    [kind |-> "model", type |-> model_choice, load |-> n, compiled |-> compiled]

\* The record of a call of load_model_if_needed: its argument (choice), the
\* exception it raised (exc), the model it returned (ret), the calls it made
\* (events) and the globals it started from (pre).
NoRequest == [exc |-> "none", events |-> <<>>, choice |-> PyNone, ret |-> NoModel,
              pre |-> [type |-> PyNone, model |-> NoModel]]

Init ==
    /\ CURRENT_MODEL_TYPE = PyNone
    /\ CURRENT_MODEL = NoModel
    /\ loads = 0
    /\ request = NoRequest
    /\ root = FALSE
    /\ dirs = [n \in DirNames |-> NoEntry]
    /\ store = Absent
    /\ repo = NoRepo
    /\ caches = {}
    /\ envSteps = 0
    /\ last = NoRun

(***************************************************************************)
(* The operations of the program.  Each one is a run of the script: it     *)
(* starts with no record of an earlier call (Ready) and the record of the  *)
(* call is dropped when the process has ended (Exit).                      *)
(***************************************************************************)
Ready == last = NoRun

Exit ==
    /\ last # NoRun
    /\ last' = NoRun
    /\ UNCHANGED <<gradio, root, dirs, store, repo, caches, envSteps>>

\* get_model_cache_path(m, models_dir)
CallResolver ==
    \E m \in DOMAIN MODEL_CONFIGS, order \in IterOrders :
        LET r == get_model_cache_path(m, FS, order)
        IN /\ Ready
           /\ last' = [NoRun EXCEPT !.cmd = "get_model_cache_path", !.model = m,
                                    !.exc = r.exc,
                                    !.path = IF r.exc = "none" THEN r.val ELSE None,
                                    !.exit = exit_status(r.exc)]
           /\ UNCHANGED <<gradio, root, dirs, store, repo, caches, envSteps>>

\* load_verification_data(verification_file)
CallLoad ==
    LET r == load_verification_data(store)
    IN /\ Ready
       /\ last' = [NoRun EXCEPT !.cmd = "load_verification_data",
                                !.exc = r.exc,
                                !.data = IF r.exc = "none" THEN r.val ELSE JNum,
                                !.exit = exit_status(r.exc)]
       /\ UNCHANGED <<gradio, root, dirs, store, repo, caches, envSteps>>

\* verify_model_integrity(m, models_dir, load_verification_data(verification_file))
CallVerify ==
    \E m \in DOMAIN MODEL_CONFIGS, order \in IterOrders :
        LET data == load_verification_data(store)
            r == verify_model_integrity(m, FS, data.val, order)
        IN /\ Ready
           /\ data.exc = "none"
           /\ last' = [NoRun EXCEPT !.cmd = "verify_model_integrity", !.model = m,
                                    !.exc = r.exc,
                                    !.ret = IF r.exc = "none" THEN r.val ELSE FALSE,
                                    !.data = data.val,
                                    !.reads = verify_reads(m, FS, data.val, order),
                                    !.exit = exit_status(r.exc),
                                    !.pre = Here]
           /\ UNCHANGED <<gradio, root, dirs, store, repo, caches, envSteps>>

\* download_models().  A pass that ends before its first fetch call never
\* consults the outcomes of the fetch calls nor the writability of the store
\* file, so these inputs are drawn only for a pass that fetches.
NoFetch == [i \in 1..Len(ModelNames) |-> FetchOutcome("raise", 0)]

Fetches(events) == {i \in 1..Len(events) : events[i].op = "fetch"}

DownloadDone(r) ==
    /\ Ready
    /\ root' = r.fs.root
    /\ dirs' = r.fs.dirs
    /\ store' = r.store
    /\ last' = [NoRun EXCEPT !.cmd = "download_models", !.exc = r.exc,
                             !.events = r.events,
                             !.downloaded = r.downloaded,
                             !.exit = exit_status(r.exc),
                             !.pre = Here]
    /\ UNCHANGED <<gradio, repo, caches, envSteps>>

DownloadModels ==
    \E mkdir \in (IF root THEN {TRUE} ELSE BOOLEAN), import \in BOOLEAN, order \in IterOrders :
        LET inp == [order |-> order, write |-> TRUE, fetch |-> NoFetch,
                    mkdir |-> mkdir, import |-> import]
            r == download_models(FS, store, inp)
        IN IF Fetches(r.events) = {}
           THEN DownloadDone(r)
           ELSE \E write \in BOOLEAN, fetch \in [1..Len(ModelNames) -> FetchOutcomes] :
                    DownloadDone(download_models(FS, store,
                        [inp EXCEPT !.write = write, !.fetch = fetch]))

\* verify-models
VerifyModels ==
    \E order \in IterOrders :
        \E r \in {verify_models(FS, store, order)} :
           /\ Ready
           /\ root' = r.fs.root
           /\ dirs' = r.fs.dirs
           /\ store' = r.store
           /\ last' = [NoRun EXCEPT !.cmd = "verify_models", !.exc = r.exc,
                                    !.events = r.events,
                                    !.exit = exit_status(r.exc),
                                    !.pre = Here]
           /\ UNCHANGED <<gradio, repo, caches, envSteps>>

\* update.  An input the run never consults is not drawn: the outcomes of
\* the git commands without a repository, the import and the probes of a
\* model check that ends before its loop, the answer without a prompt, and
\* the inputs of a refresh that is not chosen.
GitRuns ==
    {GitOk, [GitOk EXCEPT !.chdir = FALSE], [GitOk EXCEPT !.fetch = "oserror"]}
        \cup {[GitOk EXCEPT ![c] = "nonzero"] :
                 c \in {"fetch", "head", "remote", "count", "message"}}

\* The runs of the git commands a repository check on rp consults: without
\* a repository none, and the commit count and the latest message only when
\* the refs differ.
GitRunsOf(rp) ==
    IF ~rp.exists THEN {GitOk}
    ELSE {git \in GitRuns :
             \/ git.count = "ok" /\ git.message = "ok"
             \/ check_repository_updates(rp, GitOk).val.status = "update_available"}

ProbeRuns ==
    {[i \in 1..Len(ModelNames) |-> FetchOutcome("raise", 0)],
     [i \in 1..Len(ModelNames) |-> FetchOutcome("hidden", 0)],
     [i \in 1..Len(ModelNames) |-> FetchOutcome("ok", 1)],
     [i \in 1..Len(ModelNames) |->
         IF i = 1 THEN FetchOutcome("ok", 1) ELSE FetchOutcome("raise", 0)],
     [i \in 1..Len(ModelNames) |->
         IF i = 1 THEN FetchOutcome("interrupt", 0) ELSE FetchOutcome("raise", 0)]}

\* The orders of iterdir a run may see: one when no call of the resolver
\* gets as far as listing models_dir.
Listings ==
    IF \E m \in DOMAIN MODEL_CONFIGS :
           get_model_cache_path(m, [NoFS EXCEPT !.root = TRUE], IterOrder).exc = "none"
    THEN IterOrders
    ELSE {IterOrder}

CheckInput(import, probe, order) == [order |-> order, import |-> import, probe |-> probe]

CheckInputs ==
    LET quiet == CheckInput("ImportError", NoFetch, IterOrder)
    IN IF check_model_updates(FS, store, quiet).val.status = "cannot_check"
       THEN {quiet, CheckInput("OSError", NoFetch, IterOrder)}
                \cup {CheckInput("ok", probe, order) :
                         probe \in ProbeRuns, order \in Listings}
       ELSE {quiet}

RepoRun(stash, pull, sync, sync_compile) ==
    [stash |-> stash, pull |-> pull, sync |-> sync, sync_compile |-> sync_compile]

RunOk == RepoRun("ok", "ok", "ok", "ok")

RepoRuns ==
    {RunOk, [RunOk EXCEPT !.pull = "nonzero"], [RunOk EXCEPT !.stash = "oserror"],
     [RunOk EXCEPT !.sync = "oserror"]}

DownloadInput(mkdir, import, order, write, fetch) ==
    [order |-> order, write |-> write, fetch |-> fetch, mkdir |-> mkdir, import |-> import]

\* The inputs a download pass on (fs, st) consults.
DownloadInputs(fs, st) ==
    UNION {IF Fetches(download_models(fs, st, i).events) = {} THEN {i}
           ELSE {[i EXCEPT !.write = write, !.fetch = fetch] :
                    write \in BOOLEAN, fetch \in [1..Len(ModelNames) -> FetchOutcomes]}
           : i \in {DownloadInput(mkdir, import, order, TRUE, NoFetch) :
                       mkdir \in (IF fs.root THEN {TRUE} ELSE BOOLEAN),
                       import \in BOOLEAN, order \in Listings}}

ModelsInput(unlink, download) == [download |-> download, unlink |-> unlink]

ModelsIdle == ModelsInput(TRUE, DownloadInput(TRUE, FALSE, IterOrder, TRUE, NoFetch))

ModelsInputs(fs, st) ==
    {ModelsInput(TRUE, download) : download \in DownloadInputs(fs, Absent)}
        \cup (IF st.kind = "absent" THEN {}
              ELSE {ModelsInput(FALSE, download) : download \in DownloadInputs(fs, st)})

Started(events, op) ==
    \E i \in 1..Len(events) : events[i] = Event(op, <<>>, "started")

Prompts(events) == {i \in 1..Len(events) : events[i].op = "prompt"}

UpdateDone(r, git) ==
    /\ root' = r.fs.root
    /\ dirs' = r.fs.dirs
    /\ store' = r.store
    /\ repo' = r.repo
    /\ last' = [NoRun EXCEPT !.cmd = "update_zonos", !.exc = r.exc,
                             !.events = r.events,
                             !.exit = exit_status(r.exc),
                             !.repo_status = r.repo_status,
                             !.model_status = r.model_status,
                             !.git = git,
                             !.pre = Here]
    /\ UNCHANGED <<gradio, caches, envSteps>>

UpdateZonos ==
    /\ Ready
    /\ \E git \in GitRunsOf(repo), check \in CheckInputs :
        LET s == [store |-> store, repo |-> repo, fs |-> FS]
            idle == [check |-> check, models |-> ModelsIdle, git |-> git,
                     run |-> RunOk, answer |-> "none"]
        IN \E checked \in {update_zonos(s, idle)} :
            IF Prompts(checked.events) = {}
            THEN UpdateDone(checked, git)
            ELSE \E answer \in Answers :
                   \E chosen \in {update_zonos(s, [idle EXCEPT !.answer = answer])} :
                     \E run \in (IF Started(chosen.events, "update_repository")
                                 THEN RepoRuns ELSE {RunOk}),
                        models \in (IF Started(chosen.events, "update_models")
                                    THEN ModelsInputs(chosen.fs, store)
                                    ELSE {ModelsIdle}) :
                       \E r \in {update_zonos(s, [idle EXCEPT !.answer = answer,
                                                             !.run = run,
                                                             !.models = models])} :
                           UpdateDone(r, git)

\* uninstall
UninstallZonos ==
    \E fail \in {"none"} \cup (IF repo.exists THEN {"repo"} ELSE {})
                    \cup (IF root THEN {"models"} ELSE {}) \cup caches :
        \E r \in {uninstall_zonos(Here, fail)} :
           /\ Ready
           /\ root' = r.fs.root
           /\ dirs' = r.fs.dirs
           /\ store' = r.store
           /\ repo' = r.repo
           /\ caches' = r.caches
           /\ last' = [NoRun EXCEPT !.cmd = "uninstall_zonos", !.exc = r.exc,
                                    !.events = r.events,
                                    !.exit = exit_status(r.exc),
                                    !.pre = Here]
           /\ UNCHANGED <<gradio, envSteps>>

(***************************************************************************)
(* Changes made from outside the program (the operator, other tools): at   *)
(* most MaxEnvSteps of them.  Each one forgets the last call, so that last *)
(* always is a call made on the tree and the store of the state.           *)
(***************************************************************************)
\* The documents the store file is given from outside.
HashesOf(c) == [f \in ReqFiles |-> JStr(hexdigest(c))]

RecordShapes ==
    {verification_record(Hybrid, NsHybrid, HashesOf(c)) : c \in Contents}
        \cup {JObj(HashesOf(c)) : c \in Contents}
        \cup {JObj([k \in {"model_name"} |-> JStr(Hybrid)]),
              JObj([k \in {"hashes", "owner"} |->
                       IF k = "hashes" THEN JObj(HashesOf(1)) ELSE JStr(<<"me">>)]),
              verification_record(Hybrid, NsHybrid,
                  [f \in ReqFiles \ {"tokenizer.json"} |-> JStr(hexdigest(1))]),
              JNum}

StoreDocs ==
    {Doc("empty"), Doc("malformed"), Doc("undecodable"),
     JsonDoc(JNum), JsonDoc(JArr(<<>>)), JsonDoc(JArr(<<JStr(<<"hybrid_model">>)>>)),
     JsonDoc(JObj(EmptyMap)),
     JsonDoc(JObj([k \in {"transformer_model"} |->
                      verification_record(Transformer, NsTransformer, HashesOf(1))]))}
        \cup {JsonDoc(JObj([k \in {"hybrid_model"} |-> r])) : r \in RecordShapes}
        \cup {JsonDoc(JObj([k \in {"hybrid_model", "transformer_model"} |->
                              IF k = "hybrid_model" THEN r
                              ELSE verification_record(Transformer, NsTransformer, HashesOf(1))]))
                 : r \in RecordShapes}

EnvStep ==
    /\ envSteps < MaxEnvSteps
    /\ envSteps' = envSteps + 1
    /\ last' = NoRun

\* mkdir models_dir
EnvMakeRoot ==
    /\ EnvStep
    /\ ~root
    /\ root' = TRUE
    /\ UNCHANGED <<gradio, dirs, store, repo, caches>>

\* a directory with every required file appears under models_dir
EnvPutDir ==
    \E n \in DirNames, c \in Contents :
        /\ EnvStep
        /\ dirs[n].kind = "none"
        /\ root' = TRUE
        /\ dirs' = [dirs EXCEPT ![n] = DirEntry(AllFiles(c), <<>>)]
        /\ UNCHANGED <<gradio, store, repo, caches>>

\* a plain file appears under models_dir
EnvPutFile ==
    \E n \in DirNames :
        /\ EnvStep
        /\ dirs[n].kind = "none"
        /\ root' = TRUE
        /\ dirs' = [dirs EXCEPT ![n] = FileEntry]
        /\ UNCHANGED <<gradio, store, repo, caches>>

\* a required file of a directory is written, removed or made unreadable
EnvSetFile ==
    \E n \in DirNames, f \in ReqFiles, v \in FileStates :
        /\ EnvStep
        /\ dirs[n].kind = "dir"
        /\ dirs[n].files[f] # v
        /\ dirs' = [dirs EXCEPT ![n].files[f] = v]
        /\ UNCHANGED <<gradio, root, store, repo, caches>>

\* a snapshot subdirectory with every required file appears in a directory
EnvAddSnapshot ==
    \E n \in DirNames, t \in 1..MaxMtime, c \in Contents :
        /\ EnvStep
        /\ dirs[n].kind = "dir"
        /\ Len(dirs[n].snaps) < MaxSnapshots
        /\ dirs' = [dirs EXCEPT ![n].snaps = Append(@, [files |-> AllFiles(c), mtime |-> t])]
        /\ UNCHANGED <<gradio, root, store, repo, caches>>

\* the store file is written from outside
EnvSetStore ==
    \E d \in StoreDocs :
        /\ EnvStep
        /\ d # store
        /\ root' = TRUE
        /\ store' = d
        /\ UNCHANGED <<gradio, dirs, repo, caches>>

\* the repository is installed at a commit the remote has or has moved past
EnvClone ==
    \E h \in 0..MaxRef, u \in 0..MaxRef :
        /\ EnvStep
        /\ ~repo.exists
        /\ h <= u
        /\ repo' = [exists |-> TRUE, head |-> h, origin |-> h, upstream |-> u]
        /\ UNCHANGED <<gradio, root, dirs, store, caches>>

\* a commit is pushed to the main branch of the remote
EnvPush ==
    /\ EnvStep
    /\ repo.exists
    /\ repo.upstream < MaxRef
    /\ repo' = [repo EXCEPT !.upstream = @ + 1]
    /\ UNCHANGED <<gradio, root, dirs, store, caches>>

\* the store file is written from outside: what the update check reads of it
\* before any call of the resolver is whether it loads and whether it is
\* empty
EnvWriteStore ==
    \E d \in {Doc("empty"), Doc("undecodable"), JsonDoc(JObj(EmptyMap)),
              JsonDoc(JArr(<<JStr(<<"hybrid_model">>)>>)),
              JsonDoc(JObj([k \in {"hybrid_model"} |->
                              verification_record(Hybrid, NsHybrid, HashesOf(1))]))} :
        /\ EnvStep
        /\ d # store
        /\ root' = TRUE
        /\ store' = d
        /\ UNCHANGED <<gradio, dirs, repo, caches>>

\* one of the cache directories appears
EnvPutCache ==
    \E c \in Range(CacheDirs) \ caches :
        /\ EnvStep
        /\ caches' = caches \cup {c}
        /\ UNCHANGED <<gradio, root, dirs, store, repo>>

Next ==
    \/ CallResolver
    \/ CallLoad
    \/ CallVerify
    \/ DownloadModels
    \/ VerifyModels
    \/ Exit
    \/ EnvMakeRoot
    \/ EnvPutDir
    \/ EnvPutFile
    \/ EnvSetFile
    \/ EnvAddSnapshot
    \/ EnvSetStore

Spec == Init /\ [][Next]_vars

(***************************************************************************)
(* The update and the uninstall commands, in an environment that changes   *)
(* what they read before any call of the resolver: the repository and its  *)
(* remote, the cache directories, models_dir and the store document.       *)
(***************************************************************************)
UpdateNext ==
    \/ UpdateZonos
    \/ UninstallZonos
    \/ Exit
    \/ EnvClone
    \/ EnvPush
    \/ EnvPutCache
    \/ EnvMakeRoot
    \/ EnvWriteStore

UpdateSpec == Init /\ [][UpdateNext]_vars

(***************************************************************************)
(* The model cache of the Gradio front-end (gradio_interface.py).          *)
(***************************************************************************)
\* the choices of the model dropdown
supported_models == {Transformer, Hybrid}

\* inp of a call: cleanup (the first of torch.cuda.empty_cache and
\* torch.cuda.synchronize that raises, "ok" when neither does), pretrained
\* (the outcome of Zonos.from_pretrained) and compile (the outcome of
\* torch.compile).
LoadInput(cleanup, pretrained, compile) ==
    [cleanup |-> cleanup, pretrained |-> pretrained, compile |-> compile]

LoadResult(type, model, n, exc, ret, events) ==
    [loads |-> n, type |-> type, exc |-> exc, model |-> model, events |-> events,
     ret |-> ret]

\* if CURRENT_MODEL is not None: del CURRENT_MODEL; empty_cache(); synchronize()
release_model(model, inp) ==
    IF model.kind = "unbound"
    THEN [exc |-> "NameError", model |-> model, events |-> <<>>]
    ELSE IF model.kind = "None"
    THEN [exc |-> "none", model |-> model, events |-> <<>>]
    ELSE IF inp.cleanup = "empty_cache"
    THEN [exc |-> "RuntimeError", model |-> Unbound,
          events |-> <<"del", "empty_cache">>]
    ELSE IF inp.cleanup = "synchronize"
    THEN [exc |-> "RuntimeError", model |-> Unbound,
          events |-> <<"del", "empty_cache", "synchronize">>]
    ELSE [exc |-> "none", model |-> Unbound,
          events |-> <<"del", "empty_cache", "synchronize">>]

\* CURRENT_MODEL = Zonos.from_pretrained(...); requires_grad_(False).eval();
\* try: CURRENT_MODEL = torch.compile(...); CURRENT_MODEL_TYPE = model_choice
build_model(released, type, n, model_choice, inp) ==
    IF released.exc # "none"
    THEN LoadResult(type, released.model, n, released.exc, NoModel, released.events)
    ELSE IF inp.pretrained # "ok"
    THEN LoadResult(type, released.model, n, "OSError", NoModel,
                    released.events \o <<"from_pretrained">>)
    ELSE LoadResult(model_choice, Loaded(model_choice, n + 1, inp.compile = "ok"),
                    n + 1, "none", Loaded(model_choice, n + 1, inp.compile = "ok"),
                    released.events \o <<"from_pretrained", "eval", "compile">>)

\* load_model_if_needed(model_choice)
load_model_if_needed(type, model, n, model_choice, inp) ==
    IF type # model_choice
    THEN build_model(release_model(model, inp), type, n, model_choice, inp)
    ELSE IF model.kind = "unbound"
    THEN LoadResult(type, model, n, "NameError", NoModel, <<>>)
    ELSE LoadResult(type, model, n, "none", model, <<>>)

\* The outcomes a call consults: the clean-up only with a resident model,
\* from_pretrained only when the release returned, torch.compile only on a
\* built model.
LoadInputsOf(type, model, model_choice) ==
    LET built == {LoadInput("ok", "ok", c) : c \in {"ok", "raised"}}
                     \cup {LoadInput("ok", "raised", "ok")}
    IN IF type = model_choice \/ model.kind = "unbound"
       THEN {LoadInput("ok", "ok", "ok")}
       ELSE IF model.kind = "None"
       THEN built
       ELSE built \cup {LoadInput(c, "ok", "ok") : c \in {"empty_cache", "synchronize"}}

\* update_ui(model_choice) and generate_audio(model_choice, ...) start with
\* load_model_if_needed(model_choice)
LoadModelIfNeeded ==
    \E model_choice \in supported_models :
        \E inp \in LoadInputsOf(CURRENT_MODEL_TYPE, CURRENT_MODEL, model_choice) :
            \E r \in {load_model_if_needed(CURRENT_MODEL_TYPE, CURRENT_MODEL, loads,
                                           model_choice, inp)} :
                /\ r.loads <= MaxLoads
                /\ CURRENT_MODEL_TYPE' = r.type
                /\ CURRENT_MODEL' = r.model
                /\ loads' = r.loads
                /\ request' = [exc |-> r.exc, events |-> r.events, choice |-> model_choice,
                               ret |-> r.ret,
                               pre |-> [type |-> CURRENT_MODEL_TYPE,
                                        model |-> CURRENT_MODEL]]
                /\ UNCHANGED <<root, dirs, store, repo, caches, envSteps, last>>

GradioNext ==
    \/ LoadModelIfNeeded

GradioSpec == Init /\ [][GradioNext]_vars

(***************************************************************************)
(* The notions the specification is written in.                            *)
(***************************************************************************)
\* CachePathResolver: the locations resolve(identity, cache_root) may
\* return.  The three forms are tried in order; the scan returns the first
\* match of a listing whose order is not fixed.
Forms(m) == <<namespaced(m), str_replace(m), str_last_segment(m)>>

SpecLocations(m, fs) ==
    LET forms == {i \in 1..3 : path_is_dir(fs, Forms(m)[i])}
        scan == {n \in DirNames : path_is_dir(fs, n) /\ str_contains(str_last_segment(m), n)}
    IN IF forms # {}
       THEN {Some(Forms(m)[CHOOSE i \in forms : \A j \in forms : i <= j])}
       ELSE IF scan # {} THEN {Some(n) : n \in scan}
       ELSE {None}

\* The record of artifact m in a store document, in the persisted format
\* { artifact_key: { "hashes": {filename: hexdigest}, ... } }
HasRecord(m, st) ==
    /\ st.kind = "json"
    /\ st.val.t = "obj"
    /\ MODEL_CONFIGS[m].name \in DOMAIN st.val.m

RecordOf(m, st) == st.val.m[MODEL_CONFIGS[m].name]

HasHashes(m, st) ==
    /\ HasRecord(m, st)
    /\ RecordOf(m, st).t = "obj"
    /\ "hashes" \in DOMAIN RecordOf(m, st).m
    /\ RecordOf(m, st).m["hashes"].t = "obj"

\* "verified": a record exists, every required file is present under the
\* effective file root of the resolved location and its fresh hash is the
\* stored one.
SpecVerified(m, fs, st) ==
    /\ HasHashes(m, st)
    /\ \E loc \in SpecLocations(m, fs) :
          /\ loc.some
          /\ \A f \in Range(MODEL_CONFIGS[m].files_to_check) :
                LET c == model_files_dir(fs, loc.name)[f]
                    hashes == RecordOf(m, st).m["hashes"].m
                IN /\ c \in Contents
                   /\ f \in DOMAIN hashes
                   /\ hashes[f] = JStr(hexdigest(c))

\* A record that is missing, lacks keys or has unknown keys.
RecordKeys == {"hashes", "model_name", "download_time", "cache_path"}

DefectiveRecord(m, st) ==
    \/ ~HasRecord(m, st)
    \/ /\ RecordOf(m, st).t = "obj"
       /\ \/ ~HasHashes(m, st)
          \/ ~(DOMAIN RecordOf(m, st).m \subseteq RecordKeys)
          \/ /\ HasHashes(m, st)
             /\ \E f \in Range(MODEL_CONFIGS[m].files_to_check) :
                    f \notin DOMAIN RecordOf(m, st).m["hashes"].m

(***************************************************************************)
(* What TLC establishes about a download pass: it ends at its first        *)
(* verification, with exit status 1, before any fetch call and any write   *)
(* of the store.                                                           *)
(***************************************************************************)
PassEndsAtFirstVerify ==
    last.cmd = "download_models" =>
        /\ last.exit = 1
        /\ Fetches(last.events) = {}
        /\ Len(last.events) <= 1
        /\ store = last.pre.store
        /\ dirs = last.pre.fs.dirs

(***************************************************************************)
(* The claims.                                                             *)
(***************************************************************************)
\* C2: verify_model_integrity returns true if and only if the store holds a
\* record for the artifact, every required file is present under the
\* effective file root of the resolved location and the fresh hash of each
\* required file equals the hash stored for it in the record.
C2_VerifyTrueIffVerified ==
    last.cmd = "verify_model_integrity" =>
        ((last.exc = "none" /\ last.ret) <=> SpecVerified(last.model, FS, store))

\* C7: get_model_cache_path returns the first existing directory among the
\* namespaced form, the flattened form and the last segment; if none exists,
\* the first immediate subdirectory whose name contains the last segment;
\* otherwise absent.
C7_ResolverReturnsFirstMatch ==
    (last.cmd = "get_model_cache_path" /\ root) =>
        /\ last.exc = "none"
        /\ last.path \in SpecLocations(last.model, FS)

\* C8: when there is no location for the artifact (the cache root is empty
\* or holds nothing that matches), verify_model_integrity returns false and
\* does not raise.
C8_FailsClosedWhenNoLocation ==
    (last.cmd = "verify_model_integrity" /\ root
        /\ SpecLocations(last.model, FS) = {None}) =>
        /\ last.exc = "none"
        /\ last.ret = FALSE

C10_DefectiveRecordGivesFalse ==
    (last.cmd = "verify_model_integrity" /\ store.kind = "json"
        /\ store.val.t = "obj" /\ DefectiveRecord(last.model, store)) =>
        /\ last.exc = "none"
        /\ last.ret = FALSE

(***************************************************************************)
(* What TLC establishes about verify_model_integrity: no call returns, and *)
(* no call hashes a file.                                                  *)
(***************************************************************************)
VerifyNeverReturns ==
    last.cmd = "verify_model_integrity" =>
        /\ last.exc = "TypeError"
        /\ last.reads = NoReads

\* The effective file roots of the locations of artifact m: the snapshot
\* subdirectories with the most recent modification time, the location
\* itself when it has no snapshot subdirectory.
SpecRoots(m, fs) ==
    UNION {IF ~loc.some THEN {}
           ELSE LET snaps == fs.dirs[loc.name].snaps
                IN IF snaps = <<>> THEN {[name |-> loc.name, snap |-> 0]}
                   ELSE {[name |-> loc.name, snap |-> i] :
                            i \in {j \in 1..Len(snaps) :
                                      \A k \in 1..Len(snaps) : snaps[k].mtime <= snaps[j].mtime}}
           : loc \in SpecLocations(m, fs)}

\* C12: a verification of an artifact whose record matches the files of its
\* effective file root hashes every required file, and takes each one from
\* the snapshot subdirectory with the most recent modification time when the
\* resolved location has snapshot subdirectories, from the resolved location
\* itself when it has none.
C12_ReadsFromLatestSnapshot ==
    (last.cmd = "verify_model_integrity" /\ SpecVerified(last.model, FS, store)) =>
        /\ last.reads.files = MODEL_CONFIGS[last.model].files_to_check
        /\ [name |-> last.reads.name, snap |-> last.reads.snap] \in SpecRoots(last.model, FS)

\* C13: verify_model_integrity and the verify-models command leave the store
\* document and the cache tree as they found them and make no fetch call.
C13_VerifyIsReadOnly ==
    last.cmd \in {"verify_model_integrity", "verify_models"} =>
        /\ FS = last.pre.fs
        /\ store = last.pre.store
        /\ Fetches(last.events) = {}

\* C13 witness: verify-models ran on a store with content and got as far as
\* verifying an artifact.
C13_VerifyModelsVerified ==
    /\ last.cmd = "verify_models"
    /\ last.events # <<>>
    /\ store.kind = "json"

(***************************************************************************)
(* What TLC establishes about the records of the store: a command that     *)
(* removes or changes one is the uninstall or an update that started the   *)
(* model refresh; no command adds one.                                     *)
(***************************************************************************)
RecordsIn(st) ==
    IF st.kind = "json" /\ st.val.t = "obj" THEN DOMAIN st.val.m ELSE {}

RecordsLeaveOnlyByUpdateOrUninstall ==
    last.cmd \in {"download_models", "verify_models", "verify_model_integrity",
                  "update_zonos", "uninstall_zonos"} =>
        /\ RecordsIn(store) \subseteq RecordsIn(last.pre.store)
        /\ (\E k \in RecordsIn(last.pre.store) :
                k \notin RecordsIn(store) \/ store.val.m[k] # last.pre.store.val.m[k]) =>
               \/ last.cmd = "uninstall_zonos"
               \/ last.cmd = "update_zonos" /\ Started(last.events, "update_models")

\* The removals and the confirmations of a run.
Rmtrees(events) == {i \in 1..Len(events) : events[i].op = "rmtree"}

Confirmations(events) ==
    {i \in 1..Len(events) :
        events[i].op = "input" /\ strip_lower(events[i].res) \in {"yes", "y"}}

\* C15: the uninstall command removes the repository, the models directory
\* or a cache directory only after the operator has confirmed twice.
C15_UninstallAfterTwoConfirmations ==
    (last.cmd = "uninstall_zonos" /\ Rmtrees(last.events) # {}) =>
        Cardinality(Confirmations(last.events)) >= 2

\* The coordinator, as the events of an update run show it.
Checked == last.cmd = "update_zonos" /\ last.model_status.status # "none"

RepoNeedsUpdate == last.repo_status.status = "update_available"

ModelsNeedUpdate == last.model_status.status = "updates_available"

Typed(events) ==
    {strip_lower(events[i].res) : i \in {j \in 1..Len(events) : events[j].op = "input"}}

Logged(events, message) == \E i \in 1..Len(events) : events[i] = Log(message)

SinglePromptRun ==
    LET mine == IF RepoNeedsUpdate THEN "repo" ELSE "models"
        refresh == IF RepoNeedsUpdate THEN "update_repository" ELSE "update_models"
        other == IF RepoNeedsUpdate THEN "update_models" ELSE "update_repository"
    IN /\ Cardinality(Prompts(last.events)) = 1
       /\ \A i \in Prompts(last.events) : last.events[i].res = mine
       /\ ~Started(last.events, other)
       /\ Typed(last.events) = {"yes"} => Started(last.events, refresh)
       /\ Typed(last.events) = {"no"} => ~Started(last.events, refresh)

\* C17, as stated: when exactly one domain needs an update, the update
\* command issues a single yes/no prompt for that domain; yes runs the
\* refresh of that domain only and no runs no refresh.
C17_SinglePrompt ==
    (Checked /\ RepoNeedsUpdate # ModelsNeedUpdate) => SinglePromptRun

\* C17, amended: the same, when the repository is installed (without a
\* repository the update command ends before any prompt).
C17_SinglePromptWhenInstalled ==
    (Checked /\ RepoNeedsUpdate # ModelsNeedUpdate
        /\ last.repo_status.status # "not_installed") => SinglePromptRun

\* C17 witness: only the repository needed an update, the operator answered
\* yes and the repository refresh ran.
C17_RepoOnlyYes ==
    /\ Checked
    /\ RepoNeedsUpdate
    /\ ~ModelsNeedUpdate
    /\ Typed(last.events) = {"yes"}
    /\ Started(last.events, "update_repository")

\* The operator picked "both" at the combined prompt.
ChoseBoth ==
    /\ Checked
    /\ \E i \in Prompts(last.events) : last.events[i].res = "combined"
    /\ Typed(last.events) = {"both"}

Ended(events, op) == {i \in 1..Len(events) : events[i].op = op /\ events[i].res # "started"}

\* C18: when both refreshes are chosen, the repository refresh is started
\* and has ended before the model refresh starts.
C18_RepositoryFirst ==
    ChoseBoth =>
        /\ Started(last.events, "update_repository")
        /\ Ended(last.events, "update_repository") # {}
        /\ \A i \in 1..Len(last.events) :
              last.events[i].op = "update_models" =>
                  \E j \in Ended(last.events, "update_repository") : j < i

\* C18 witness: both refreshes were chosen and both ran.
C18_BothRan ==
    /\ ChoseBoth
    /\ Started(last.events, "update_repository")
    /\ Started(last.events, "update_models")

\* C19: when both refreshes are chosen, the model refresh is started
\* whatever the outcome of the repository refresh, and a repository refresh
\* that succeeded is reported as such whatever the outcome of the model
\* refresh.
C19_RefreshesAreIndependent ==
    ChoseBoth =>
        /\ Started(last.events, "update_models")
        /\ Event("update_repository", <<>>, "True") \in Range(last.events) =>
              Logged(last.events, "Repository update completed successfully!")

\* C20: an update run that starts a refresh reaches the end of update_zonos
\* and the update command ends with exit status 0, whatever the outcome of
\* the refreshes.
C20_ApplyingReachesDone ==
    (Checked /\ (Started(last.events, "update_repository")
                    \/ Started(last.events, "update_models"))) =>
        /\ Logged(last.events, "Update check completed!")
        /\ last.exit = 0

\* The repository check of an update run: some call of it failed.
GitFailed == last.git # GitOk

\* C21: the repository check reports not_installed when no repository is
\* present, error with a message when a call of it fails, up_to_date when
\* the local ref is the ref of the remote, and otherwise update_available
\* with the distance from the local ref to the remote ref and the latest
\* message of the remote.
C21_RepositoryStatusByRefs ==
    last.cmd = "update_zonos" =>
        LET rp == last.pre.repo
            st == last.repo_status
        IN IF ~rp.exists THEN st.status = "not_installed"
           ELSE IF GitFailed THEN st.status = "error" /\ st.message # ""
           ELSE IF rp.head = rp.upstream THEN st.status = "up_to_date"
           ELSE /\ st.status = "update_available"
                /\ st.commits_behind = rp.upstream - rp.head
                /\ st.latest_message = "subject"

\* The version-control calls of the repository check, and the runs in which
\* exactly one of them failed.
GitCalls == {"fetch", "head", "remote", "count", "message"}

OneGitCallFailed ==
    /\ last.git.chdir
    /\ Cardinality({c \in GitCalls : last.git[c] # "ok"}) = 1

\* The model check was performed: it gave a status, or it raised.
ModelCheckPerformed ==
    \/ last.model_status.status # "none"
    \/ last.exc \in {"UnicodeDecodeError", "KeyboardInterrupt"}

\* C22: when one version-control call of the repository check fails, the
\* repository check still returns a status and the model check is still
\* performed.
C22_GitFailureIsNotFatal ==
    (last.cmd = "update_zonos" /\ last.pre.repo.exists /\ OneGitCallFailed) =>
        /\ last.repo_status.status # "none"
        /\ ModelCheckPerformed

\* A store without content: no file, an empty or unreadable document, or a
\* document without entries.
NoContent(st) ==
    \/ st.kind \in {"absent", "empty", "malformed"}
    \/ st.kind = "json" /\ ~py_truthy(st.val)

\* The failing artifacts of a model check, in registry order: check_failed
\* when the probe of the artifact raised, verification_failed when the
\* artifact is not verified on the cache tree fs the probes left.
SpecFailure(m, events, fs, st) ==
    IF Event("fetch", m, "raised") \in Range(events) THEN "check_failed"
    ELSE IF ~SpecVerified(m, fs, st) THEN "verification_failed"
    ELSE "none"

SpecFailures(events, fs, st) ==
    LET failing(m) == Failing(m, SpecFailure(m, events, fs, st))
        all == [i \in 1..Len(ModelNames) |-> failing(ModelNames[i])]
    IN SelectSeq(all, LAMBDA e : e.reason # "none")

\* C23: the model check reports not_downloaded without a cache root,
\* no_verification for a store without content, updates_available with one
\* entry per failing artifact (check_failed for a probe that raised,
\* verification_failed for a failed verification) when an artifact fails,
\* and up_to_date when none fails.  (Seen in the update runs that start no
\* model refresh: the cache tree of the state then is the one the probes
\* left.  A check that cannot import its dependencies is left aside.)
C23_ModelStatusByFailures ==
    (Checked /\ ~Started(last.events, "update_models")
        /\ last.model_status.status \notin {"cannot_check", "error"}) =>
        LET st == last.model_status
            failures == SpecFailures(last.events, FS, last.pre.store)
        IN IF ~last.pre.fs.root THEN st.status = "not_downloaded"
           ELSE IF NoContent(last.pre.store) THEN st.status = "no_verification"
           ELSE IF failures # <<>>
           THEN st.status = "updates_available" /\ st.models = failures
           ELSE st.status = "up_to_date"

\* Every required file of artifact m is present under the cache root.
FilesPresent(m, fs) ==
    \E loc \in SpecLocations(m, fs) :
        /\ loc.some
        /\ \A f \in Range(MODEL_CONFIGS[m].files_to_check) :
              model_files_dir(fs, loc.name)[f] \in Contents

\* The document holds no record for artifact m.
NoRecord(m, st) ==
    \/ NoContent(st)
    \/ st.kind = "json" /\ st.val.t = "obj" /\ ~HasRecord(m, st)

\* The model check reports artifact m as unverified: there is no
\* verification data at all, or m is listed as having failed verification.
ReportedUnverified(m, st) ==
    \/ st.status = "no_verification"
    \/ st.status = "updates_available"
          /\ Failing(m, "verification_failed") \in Range(st.models)

\* C24: when the files of an artifact are present under the cache root and
\* the verification document holds no record for it, the update check
\* reports the artifact as unverified and not as not downloaded.  (For a
\* check that could import its dependencies and whose probe of the artifact
\* returned.)
C24_PresentButUnrecordedIsUnverified ==
    \A m \in DOMAIN MODEL_CONFIGS :
        (Checked /\ FilesPresent(m, last.pre.fs) /\ NoRecord(m, last.pre.store)
            /\ last.model_status.status \notin {"cannot_check", "error"}
            /\ Event("fetch", m, "raised") \notin Range(last.events)) =>
            /\ last.model_status.status # "not_downloaded"
            /\ ReportedUnverified(m, last.model_status)

\* C25: the verify-models command exits with a non-zero status before it
\* verifies any artifact when the cache root is absent, and with status 0
\* when the cache root exists, whatever the store holds and whatever the
\* verifications report.
C25_VerifyModelsExitStatus ==
    last.cmd = "verify_models" =>
        IF ~last.pre.fs.root
        THEN last.exit # 0 /\ last.events = <<>>
        ELSE last.exit = 0

(***************************************************************************)
(* What TLC establishes about get_model_cache_path: no call returns a      *)
(* location, whatever the cache root holds and in whatever order its       *)
(* subdirectories are listed.                                              *)
(***************************************************************************)
ResolverNeverReturns ==
    /\ last.cmd = "get_model_cache_path" => last.exc = "TypeError"
    /\ \A m \in DOMAIN MODEL_CONFIGS, order \in IterOrders :
          get_model_cache_path(m, FS, order).exc = "TypeError"

\* The update run issued the combined prompt.
CombinedPrompt ==
    /\ Checked
    /\ \E i \in Prompts(last.events) : last.events[i].res = "combined"

\* C27: at the combined prompt the token typed fixes the refreshes that
\* run: the repository refresh runs exactly for "repo" and "both", the
\* model refresh exactly for "models" and "both"; "none" and any other
\* input run neither.
C27_TokenFixesSubActions ==
    CombinedPrompt =>
        /\ Started(last.events, "update_repository")
              <=> Typed(last.events) \subseteq {"repo", "both"}
        /\ Started(last.events, "update_models")
              <=> Typed(last.events) \subseteq {"models", "both"}

(***************************************************************************)
(* What TLC establishes about save_model_verification: no call returns,    *)
(* so no call writes a record.                                             *)
(***************************************************************************)
SaveNeverWrites ==
    \A m \in DOMAIN MODEL_CONFIGS, order \in IterOrders, write \in BOOLEAN :
        save_model_verification(m, FS, store, order, write).exc # "none"

\* The update run issued a prompt that offers the model refresh.
ModelPrompt ==
    \E i \in Prompts(last.events) : last.events[i].res \in {"models", "combined"}

\* C29: the update command runs the model refresh only if the model status
\* is updates_available and the repository is installed; with any other
\* model status, or without a repository, it issues no prompt that offers
\* the model refresh and runs no model refresh.
C29_ModelRefreshOnlyWhenAvailable ==
    last.cmd = "update_zonos" =>
        LET offered == /\ last.model_status.status = "updates_available"
                       /\ last.repo_status.status # "not_installed"
        IN /\ Started(last.events, "update_models") => offered
           /\ ~offered => ~ModelPrompt /\ ~Started(last.events, "update_models")

\* C29 witness: the models were reported updates_available, the repository
\* was installed and the model refresh ran.
C29_ModelRefreshRan ==
    /\ Checked
    /\ ModelsNeedUpdate
    /\ last.repo_status.status # "not_installed"
    /\ Started(last.events, "update_models")

\* C29 witness of the other side: without a repository nothing was offered
\* although the models were reported updates_available.
C29_NotOfferedWithoutRepository ==
    /\ Checked
    /\ ModelsNeedUpdate
    /\ last.repo_status.status = "not_installed"
    /\ Prompts(last.events) = {}

\* The last call of load_model_if_needed.
Requested == request # NoRequest

Resident(model) == model.kind = "model"

Called(events, op) == \E i \in DOMAIN events : events[i] = op

\* C30: in the Gradio front-end, after any sequence of load_model_if_needed
\* calls, CURRENT_MODEL_TYPE names a model type only if CURRENT_MODEL is bound
\* to a loaded model of that type; a call with the current type returns the
\* resident model without reloading, and a call with a different type
\* releases the resident model before loading the new one.
C30_TypeNamesResidentModel ==
    /\ CURRENT_MODEL_TYPE # PyNone =>
           Resident(CURRENT_MODEL) /\ CURRENT_MODEL.type = CURRENT_MODEL_TYPE
    /\ (Requested /\ request.pre.type = request.choice) =>
           /\ request.exc = "none"
           /\ Resident(request.ret) /\ request.ret = request.pre.model
           /\ ~Called(request.events, "from_pretrained")
    /\ (Requested /\ request.pre.type # request.choice
                  /\ Called(request.events, "from_pretrained")
                  /\ Resident(request.pre.model)) =>
           \E i, j \in DOMAIN request.events :
               /\ i < j
               /\ request.events[i] = "del"
               /\ request.events[j] = "from_pretrained"

(***************************************************************************)
(* Type correctness of the state.                                          *)
(***************************************************************************)
TypeOK ==
    /\ root \in BOOLEAN
    /\ envSteps \in 0..MaxEnvSteps
    /\ \A n \in DirNames : dirs[n].kind \in {"none", "file", "dir"}
    /\ store.kind \in {"absent", "empty", "malformed", "undecodable", "json"}
    /\ (store.kind # "absent" => root)
    /\ repo.head <= repo.origin /\ repo.origin <= repo.upstream /\ repo.upstream <= MaxRef
    /\ caches \subseteq Range(CacheDirs)
    /\ (\E n \in DirNames : dirs[n].kind # "none") => root
    /\ CURRENT_MODEL_TYPE \in {PyNone} \cup supported_models
    /\ CURRENT_MODEL.kind \in {"unbound", "None", "model"}
    /\ CURRENT_MODEL.load \in 0..loads
    /\ loads \in 0..MaxLoads
    /\ request.exc \in {"none", "NameError", "RuntimeError", "OSError"}
====
